---------------------------- MODULE Spec2Model ----------------------------
(***************************************************************************)
(* A model of the ftx_us_derivs market-data client (src/src/ws.rs) and of  *)
(* the contract reference table (src/src/table.rs).                        *)
(*                                                                         *)
(* Text payloads are sequences of JSON lexemes (string literals, numbers,  *)
(* punctuation, one-space whitespace, and bare non-JSON words), so that    *)
(* str::find is a real substring search over lexemes and serde_json's      *)
(* decode is a real parse of the lexeme sequence.                          *)
(*                                                                         *)
(* An f64 obtained by dividing an integer by 100.0 is written as the exact *)
(* two-digit decimal [whole, frac] (value whole + frac/100).               *)
(***************************************************************************)
EXTENDS Integers, Sequences, FiniteSets, TLC

VARIABLES
    wire,       \* every frame the server has put on the connection, in order
    rcvd,       \* how many of them recv_message has handed to the client
    outbound,   \* every frame the client has sent on the connection, in order
    calls,      \* one record per yield_msg call, in call order
    crashed,    \* the process has panicked
    self,       \* WebSocketClient's own fields
    raw,        \* RawContractSpecTable.data
    now,        \* Utc::now() as seen by the normalizer
    heap,       \* the Rc<ContractSpec> allocations, in allocation order
    table,      \* the ContractSpecTable sanitize returned (pointers into heap)
    tpc         \* where the table build is: "raw", "built" or "panicked"

wsVars == <<wire, rcvd, outbound, calls, crashed, self>>
tableVars == <<raw, now, heap, table, tpc>>
vars == <<wire, rcvd, outbound, calls, crashed, self, raw, now, heap, table, tpc>>

\* Bounds of the model
MaxFrames == 2
MaxCalls == 2
MaxRecords == 2

(***************************************************************************)
(* Lexemes and payloads                                                    *)
(***************************************************************************)
Str(x) == [k |-> "str", s |-> x, n |-> 0]      \* the JSON string literal "x"
Num(v) == [k |-> "num", s |-> "", n |-> v]     \* a JSON integer
Punct(c) == [k |-> "punct", s |-> c, n |-> 0]  \* one of { } : ,
Sp == [k |-> "ws", s |-> " ", n |-> 0]         \* one space
Word(x) == [k |-> "raw", s |-> x, n |-> 0]     \* text that is no JSON lexeme

\* s.find(pat).is_some(): pat occurs as a contiguous run of s
Find(s, pat) ==
    \E i \in 1..(Len(s) - Len(pat) + 1) : SubSeq(s, i, i + Len(pat) - 1) = pat

\* The literals parse searches for: "type": "<name>", one space after the colon
TagBookTop == <<Str("type"), Punct(":"), Sp, Str("book_top")>>
TagHeartbeat == <<Str("type"), Punct(":"), Sp, Str("heartbeat")>>
TagUnauthSuccess == <<Str("type"), Punct(":"), Sp, Str("unauth_success")>>
TagMeta == <<Str("type"), Punct(":"), Sp, Str("meta")>>

(***************************************************************************)
(* serde_json::from_str into a derived struct with u64 fields              *)
(***************************************************************************)
\* JSON whitespace is insignificant
NoWs(s) == SelectSeq(s, LAMBDA t : t.k # "ws")

\* In a flat object  { key : value , key : value }  without whitespace,
\* member j has its key at 4j-2, its colon at 4j-1 and its value at 4j
MemberCount(t) == (Len(t) - 1) \div 4
MemberKey(t, j) == t[4 * j - 2].s
MemberValue(t, j) == t[4 * j]

JsonObject(t) ==
    /\ Len(t) >= 2
    /\ t[1] = Punct("{")
    /\ t[Len(t)] = Punct("}")
    /\ \/ Len(t) = 2
       \/ /\ (Len(t) - 1) % 4 = 0
          /\ \A j \in 1..MemberCount(t) :
                /\ t[4 * j - 2].k = "str"
                /\ t[4 * j - 1] = Punct(":")
                /\ t[4 * j].k \in {"str", "num"}
                /\ j < MemberCount(t) => t[4 * j + 1] = Punct(",")

\* The struct visitor: a known field holds a u64 and occurs exactly once,
\* unknown fields (such as "type") are ignored
FromStr(fields, s) ==
    LET t == NoWs(s)
        m == MemberCount(t)
        ok == /\ JsonObject(t)
              /\ \A j \in 1..m : MemberKey(t, j) \in fields =>
                    (MemberValue(t, j).k = "num" /\ MemberValue(t, j).n >= 0)
              /\ \A f \in fields : Cardinality({j \in 1..m : MemberKey(t, j) = f}) = 1
    IN  IF ok
          THEN [ok |-> TRUE,
                val |-> [f \in fields |->
                           MemberValue(t, CHOOSE j \in 1..m : MemberKey(t, j) = f).n]]
          ELSE [ok |-> FALSE]

(***************************************************************************)
(* Results of parse and yield_msg                                          *)
(***************************************************************************)
OkPing(data) == [kind |-> "Ok", tag |-> "Ping", data |-> data]
OkPong == [kind |-> "Ok", tag |-> "Pong"]
OkBookTop(bt) == [kind |-> "Ok", tag |-> "BookTop", bt |-> bt]
OkHeartBeat(hb) == [kind |-> "Ok", tag |-> "HeartBeat", hb |-> hb]
OkUnAuthSuccess == [kind |-> "Ok", tag |-> "UnAuthSuccess"]
OkSessionID(sid) == [kind |-> "Ok", tag |-> "SessionID", sid |-> sid]
\* MsgParsing's message, line and column are serde_json's diagnostics
ErrMsgParsing == [kind |-> "Err", tag |-> "MsgParsing"]
ErrUnknownMsgType(s) == [kind |-> "Err", tag |-> "UnknownMsgType", text |-> s]
ErrConnectionError == [kind |-> "Err", tag |-> "ConnectionError"]
Unimplemented == [kind |-> "Panic", tag |-> "unimplemented"]

\* RawMsg::parse: the decode, its failure mapped to MsgParsing
RawMsgParse(fields, inp) ==
    LET r == FromStr(fields, inp)
    IN  IF r.ok THEN r ELSE [ok |-> FALSE, err |-> ErrMsgParsing]

RawHeartbeatFields == {"timestamp", "ticks", "run_id", "interval_ms"}
RawBookTopFields ==
    {"bid", "bid_size", "ask", "ask_size", "contract_id", "contract_type", "clock"}

\* (x as f64) / 100.0
F64Div100(x) == [whole |-> x \div 100, frac |-> x % 100]

\* RawBookTop::sanitize
SanitizeBookTop(r) ==
    [bid |-> F64Div100(r.bid),
     bid_size |-> r.bid_size,
     ask |-> F64Div100(r.ask),
     ask_size |-> r.ask_size,
     contract_id |-> r.contract_id,
     contract_type |-> r.contract_type,
     clock |-> r.clock]

\* ParseText with the refused payload left out of the error
ParseTextLosingPayload(s) ==
    IF Find(s, TagBookTop)
      THEN LET r == RawMsgParse(RawBookTopFields, s)
           IN  IF r.ok THEN OkBookTop(SanitizeBookTop(r.val)) ELSE r.err
    ELSE IF Find(s, TagHeartbeat)
      THEN LET r == RawMsgParse(RawHeartbeatFields, s)
           IN  IF r.ok THEN OkHeartBeat(r.val) ELSE r.err
    ELSE IF Find(s, TagUnauthSuccess)
      THEN OkUnAuthSuccess
    ELSE IF Find(s, TagMeta)
      THEN OkSessionID("unimplemented lol")
    ELSE ErrUnknownMsgType(<<>>)

\* ParseText trying the heartbeat tag before the book_top tag
ParseTextHeartbeatFirst(s) ==
    IF Find(s, TagHeartbeat)
      THEN LET r == RawMsgParse(RawHeartbeatFields, s)
           IN  IF r.ok THEN OkHeartBeat(r.val) ELSE r.err
    ELSE IF Find(s, TagBookTop)
      THEN LET r == RawMsgParse(RawBookTopFields, s)
           IN  IF r.ok THEN OkBookTop(SanitizeBookTop(r.val)) ELSE r.err
    ELSE IF Find(s, TagUnauthSuccess)
      THEN OkUnAuthSuccess
    ELSE IF Find(s, TagMeta)
      THEN OkSessionID("unimplemented lol")
    ELSE ErrUnknownMsgType(s)

\* WebSocketMsgParser::parse, the Text arm
ParseText(s) ==
    IF Find(s, TagBookTop)
      THEN LET r == RawMsgParse(RawBookTopFields, s)
           IN  IF r.ok THEN OkBookTop(SanitizeBookTop(r.val)) ELSE r.err
    ELSE IF Find(s, TagHeartbeat)
      THEN LET r == RawMsgParse(RawHeartbeatFields, s)
           IN  IF r.ok THEN OkHeartBeat(r.val) ELSE r.err
    ELSE IF Find(s, TagUnauthSuccess)
      THEN OkUnAuthSuccess
    ELSE IF Find(s, TagMeta)
      THEN OkSessionID("unimplemented lol")
    ELSE ErrUnknownMsgType(s)

(***************************************************************************)
(* Wire frames (websocket::OwnedMessage)                                   *)
(***************************************************************************)
Text(s) == [op |-> "Text", text |-> s, data |-> <<>>]
Ping(d) == [op |-> "Ping", text |-> <<>>, data |-> d]
Pong(d) == [op |-> "Pong", text |-> <<>>, data |-> d]
Binary(d) == [op |-> "Binary", text |-> <<>>, data |-> d]
Close == [op |-> "Close", text |-> <<>>, data |-> <<>>]
NoFrame == [op |-> "None", text |-> <<>>, data |-> <<>>]

\* Parse answering an unrecognized frame with a recoverable error
ParseLenient(msg) ==
    CASE msg.op = "Text" -> ParseText(msg.text)
      [] msg.op = "Ping" -> OkPing(msg.data)
      [] msg.op = "Pong" -> OkPong
      [] OTHER -> [kind |-> "Err", tag |-> "Misc"]

\* WebSocketMsgParser::parse
Parse(msg) ==
    CASE msg.op = "Text" -> ParseText(msg.text)
      [] msg.op = "Ping" -> OkPing(msg.data)
      [] msg.op = "Pong" -> OkPong
      [] OTHER -> Unimplemented

\* RespondIfPing answering with an empty Pong
RespondIfPingEmptyPong(msg, sendOk) ==
    IF msg.kind = "Ok" /\ msg.tag = "Ping"
      THEN IF sendOk
             THEN [sent |-> <<Pong(<<>>)>>, ret |-> msg]
             ELSE [sent |-> <<>>, ret |-> ErrConnectionError]
      ELSE [sent |-> <<>>, ret |-> msg]

\* RespondIfPing answering every decoded event, not only a Ping
RespondToEveryEvent(msg, sendOk) ==
    IF msg.kind = "Ok"
      THEN IF sendOk
             THEN [sent |-> <<Pong(<<>>)>>, ret |-> msg]
             ELSE [sent |-> <<>>, ret |-> ErrConnectionError]
      ELSE [sent |-> <<>>, ret |-> msg]

\* WebSocketClient::respond_if_ping: the frames it sends and what it returns.
\* sendOk is whether send_message succeeds (a failed send delivers no frame).
RespondIfPing(msg, sendOk) ==
    IF msg.kind = "Ok" /\ msg.tag = "Ping"
      THEN IF sendOk
             THEN [sent |-> <<Pong(msg.data)>>, ret |-> msg]
             ELSE [sent |-> <<>>, ret |-> ErrConnectionError]
      ELSE [sent |-> <<>>, ret |-> msg]

(***************************************************************************)
(* What the server can send                                                *)
(***************************************************************************)
Spaced == <<Sp>>    \* "key": value, "key": value
Compact == <<>>     \* "key":value,"key":value

RECURSIVE RenderMembers(_, _)
RenderMembers(members, sep) ==
    IF members = <<>>
      THEN <<>>
      ELSE <<Str(members[1][1]), Punct(":")>> \o sep \o <<members[1][2]>>
           \o (IF Len(members) > 1 THEN <<Punct(",")>> \o sep ELSE <<>>)
           \o RenderMembers(Tail(members), sep)

Object(members, sep) == <<Punct("{")>> \o RenderMembers(members, sep) \o <<Punct("}")>>

TypeTag(name) == <<"type", Str(name)>>

BookTopMembers(bid, bid_size, ask, ask_size, contract_id, contract_type, clock) ==
    << <<"bid", Num(bid)>>, <<"bid_size", Num(bid_size)>>,
       <<"ask", Num(ask)>>, <<"ask_size", Num(ask_size)>>,
       <<"contract_id", Num(contract_id)>>, <<"contract_type", Num(contract_type)>>,
       <<"clock", Num(clock)>> >>

HeartbeatMembers(timestamp, ticks, run_id, interval_ms) ==
    << <<"timestamp", Num(timestamp)>>, <<"ticks", Num(ticks)>>,
       <<"run_id", Num(run_id)>>, <<"interval_ms", Num(interval_ms)>> >>

\* {"type":"book_top","bid":10050,"bid_size":3,"ask":10100,"ask_size":5,
\*  "contract_id":7,"contract_type":1,"clock":42}, as written
EndToEndBookTop ==
    Object(<<TypeTag("book_top")>> \o BookTopMembers(10050, 3, 10100, 5, 7, 1, 42), Compact)
\* the same object with a space after each colon and comma
EndToEndBookTopSpaced ==
    Object(<<TypeTag("book_top")>> \o BookTopMembers(10050, 3, 10100, 5, 7, 1, 42), Spaced)

MetaPayload(sid) == Object(<<TypeTag("meta"), <<"session_id", Str(sid)>> >>, Spaced)

BookTopPayloads ==
    { EndToEndBookTop,
      EndToEndBookTopSpaced,
      \* the tag last, and a heartbeat tag after it
      Object(BookTopMembers(250, 1, 12345, 4, 9, 1, 44)
             \o <<TypeTag("book_top"), TypeTag("heartbeat")>>, Spaced),
      \* clock missing
      Object(<<TypeTag("book_top")>>
             \o SubSeq(BookTopMembers(10050, 3, 10100, 5, 7, 1, 42), 1, 6), Spaced),
      \* a negative bid
      Object(<<TypeTag("book_top")>> \o BookTopMembers(-5, 3, 10100, 5, 7, 1, 42), Spaced),
      \* a heartbeat's fields under both tags
      Object(<<TypeTag("heartbeat"), TypeTag("book_top")>>
             \o HeartbeatMembers(1000, 5, 9, 200), Spaced),
      \* cut off after the first member
      SubSeq(EndToEndBookTopSpaced, 1, 11) }

HeartbeatPayloads ==
    { Object(<<TypeTag("heartbeat")>> \o HeartbeatMembers(1000, 5, 9, 200), Spaced),
      \* a string where a u64 is expected, and a lower-priority tag
      Object(<<TypeTag("heartbeat"), <<"timestamp", Str("x")>>,
               TypeTag("unauth_success")>>, Spaced) }

OtherPayloads ==
    { Object(<<TypeTag("unauth_success")>>, Spaced),
      Object(<<TypeTag("meta"), TypeTag("unauth_success")>>, Spaced),
      MetaPayload("a"),
      MetaPayload("b"),
      Object(<<TypeTag("trade"), <<"price", Num(5)>> >>, Spaced),
      <<Word("hello")>>,
      <<>> }

Payloads == BookTopPayloads \cup HeartbeatPayloads \cup OtherPayloads

Frames ==
    {Text(s) : s \in Payloads}
    \cup {Ping(<<1, 2, 3>>), Ping(<<>>), Pong(<<7>>), Binary(<<0>>), Close}

(***************************************************************************)
(* The message client                                                      *)
(***************************************************************************)
\* WebSocketClient::connect, after a successful handshake
Connect(endpoint) == [endpoint |-> endpoint, exhaustion_counter |-> 0, last_clock |-> 0]

\* The server puts a frame on the connection
ServerSend(f) ==
    /\ Len(wire) < MaxFrames
    /\ wire' = Append(wire, f)
    /\ UNCHANGED <<rcvd, outbound, calls, crashed, self, tableVars>>

CallRecord(idx, frame, before, after, result) ==
    [idx |-> idx, frame |-> frame, outBefore |-> before, outAfter |-> after,
     result |-> result]

\* WebSocketClient::yield_msg, one whole call.  recv_message blocks until a
\* frame is there or fails; a panic in parse unwinds before anything is sent.
YieldMsg ==
    /\ ~crashed
    /\ Len(calls) < MaxCalls
    /\ \E recvOk \in BOOLEAN :
         IF ~recvOk
           THEN /\ calls' = Append(calls, CallRecord(0, NoFrame, Len(outbound),
                                                     Len(outbound), ErrConnectionError))
                /\ UNCHANGED <<rcvd, outbound, crashed>>
           ELSE /\ rcvd < Len(wire)
                /\ LET web_msg == wire[rcvd + 1]
                       parsed == Parse(web_msg)
                   IN  IF parsed.kind = "Panic"
                         THEN /\ crashed' = TRUE
                              /\ rcvd' = rcvd + 1
                              /\ calls' = Append(calls,
                                    CallRecord(rcvd + 1, web_msg, Len(outbound),
                                               Len(outbound), parsed))
                              /\ UNCHANGED outbound
                         ELSE \E sendOk \in BOOLEAN :
                                LET r == RespondIfPing(parsed, sendOk)
                                IN  /\ rcvd' = rcvd + 1
                                    /\ outbound' = outbound \o r.sent
                                    /\ calls' = Append(calls,
                                          CallRecord(rcvd + 1, web_msg, Len(outbound),
                                                     Len(outbound \o r.sent), r.ret))
                                    /\ UNCHANGED crashed
    /\ UNCHANGED <<wire, self, tableVars>>

(***************************************************************************)
(* The contract reference table                                            *)
(***************************************************************************)
Some(v) == [some |-> TRUE, v |-> v]
NoneU32 == [some |-> FALSE, v |-> 0]
NoneBool == [some |-> FALSE, v |-> FALSE]

\* A datetime string: one the venue's format parses, to the timestamp ts, or not
DateStr(ts) == [valid |-> TRUE, ts |-> ts]
BadDateStr == [valid |-> FALSE, ts |-> 0]

SecondsPerYear == 31556926

\* x as f64
AsF64(x) == [whole |-> x, frac |-> 0]

\* The options arm with unwrap_or defaults for strike_price and is_call
OptionArmPanicsOnDatesOnly(i) ==
    \/ ~i.date_expires.valid
    \/ ~i.date_live.valid

\* The unwraps of the options arm: strike_price, is_call, and the datetimes
\* parse_ftx_datetime unwraps for date_expires and date_live
OptionArmPanics(i) ==
    \/ ~i.strike_price.some
    \/ ~i.is_call.some
    \/ ~i.date_expires.valid
    \/ ~i.date_live.valid

\* The strike carried over in hundredths
StrikeUnscaled(x) == x

\* (strike_price / 100) as u64, on a u32
StrikeWholeUnits(x) == x \div 100

\* One RawContractSpec arm of sanitize's match: the ContractSpec, or a panic
\* (unwrap of None, unwrap of a datetime that does not parse, unimplemented!)
ToContractSpec(i, nw) ==
    CASE i.derivative_type = "day_ahead_swap" ->
           [panic |-> FALSE, spec |-> [variant |-> "Swap", inner |-> i]]
      [] i.derivative_type = "future_contract" ->
           [panic |-> FALSE, spec |-> [variant |-> "Future", inner |-> i]]
      [] i.derivative_type = "options_contract" ->
           IF OptionArmPanics(i)
             THEN [panic |-> TRUE]
             ELSE [panic |-> FALSE,
                   spec |-> [variant |-> "Option",
                             id |-> i.id,
                             label |-> i.label,
                             underlying |-> i.underlying_asset,
                             strike_price |-> StrikeWholeUnits(i.strike_price.v),
                             is_call |-> i.is_call.v,
                             tte |-> [num |-> i.date_expires.ts - nw,
                                      den |-> SecondsPerYear],
                             open_interest |-> IF i.open_interest.some
                                                 THEN i.open_interest.v ELSE 0,
                             multiplier |-> AsF64(i.multiplier),
                             min_increment |-> F64Div100(i.min_increment),
                             active |-> i.active,
                             date_live |-> i.date_live.ts,
                             date_expires |-> i.date_expires.ts,
                             collateral_asset |-> i.collateral_asset,
                             is_ecp_only |-> i.is_ecp_only]]
      [] OTHER -> [panic |-> TRUE]

\* HashMap::insert
MapInsert(m, key, v) == [x \in DOMAIN m \cup {key} |-> IF x = key THEN v ELSE m[x]]
EmptyMap == [x \in {} |-> 0]

\* InsertShared with one allocation per index
InsertCloned(out, out_i, out_s, out_c) ==
    LET out_p == Len(out.heap) + 1
    IN  [heap |-> out.heap \o <<out_c, out_c>>,
         id_table |-> MapInsert(out.id_table, out_i, out_p),
         label_table |-> MapInsert(out.label_table, out_s, out_p + 1)]

\* Rc::new(out_c), then the two inserts of out_p.clone()
InsertShared(out, out_i, out_s, out_c) ==
    LET out_p == Len(out.heap) + 1
    IN  [heap |-> Append(out.heap, out_c),
         id_table |-> MapInsert(out.id_table, out_i, out_p),
         label_table |-> MapInsert(out.label_table, out_s, out_p)]

\* The for loop of sanitize from record k on
RECURSIVE SanitizeFrom(_, _, _, _)
SanitizeFrom(data, k, out, nw) ==
    IF k > Len(data)
      THEN [panic |-> FALSE, heap |-> out.heap,
            id_table |-> out.id_table, label_table |-> out.label_table]
      ELSE LET c == ToContractSpec(data[k], nw)
           IN  IF c.panic
                 THEN [panic |-> TRUE]
                 ELSE SanitizeFrom(data, k + 1,
                                   InsertShared(out, data[k].id, data[k].label, c.spec),
                                   nw)

\* RawContractSpecTable::sanitize
Sanitize(data, nw) ==
    SanitizeFrom(data, 1, [heap |-> <<>>, id_table |-> EmptyMap, label_table |-> EmptyMap], nw)

NoTable == [id_table |-> EmptyMap, label_table |-> EmptyMap]

\* ContractSpecTable::build once the raw table is fetched: the table, or a panic
BuildTable ==
    /\ tpc = "raw"
    /\ LET r == Sanitize(raw, now)
       IN  IF r.panic
             THEN /\ tpc' = "panicked"
                  /\ UNCHANGED <<heap, table>>
             ELSE /\ tpc' = "built"
                  /\ heap' = r.heap
                  /\ table' = [id_table |-> r.id_table, label_table |-> r.label_table]
    /\ UNCHANGED <<raw, now, wsVars>>

(***************************************************************************)
(* What the contract list can hold                                         *)
(***************************************************************************)
NowValues == {1000000}

\* strike_price=500000, is_call=true, expiring one year after 1000000
BaseOption ==
    [id |-> 1, label |-> "A", is_call |-> Some(TRUE), active |-> TRUE,
     strike_price |-> Some(500000), min_increment |-> 100,
     date_live |-> DateStr(500000), date_expires |-> DateStr(32556926),
     date_exercise |-> "", underlying_asset |-> "CBTC", collateral_asset |-> "USD",
     derivative_type |-> "options_contract", open_interest |-> Some(7),
     is_next_day |-> FALSE, multiplier |-> 100, is_ecp_only |-> FALSE]

RawRecords ==
    { BaseOption,
      [BaseOption EXCEPT !.id = 2, !.label = "B", !.strike_price = Some(500050),
                         !.is_call = Some(FALSE), !.min_increment = 250,
                         !.open_interest = NoneU32, !.multiplier = 1],
      \* the id of the first, the label of the second
      [BaseOption EXCEPT !.label = "B", !.strike_price = Some(12345),
                         !.min_increment = 1],
      [BaseOption EXCEPT !.id = 2, !.derivative_type = "future_contract",
                         !.strike_price = NoneU32, !.is_call = NoneBool,
                         !.date_expires = BadDateStr],
      [BaseOption EXCEPT !.id = 3, !.label = "C", !.derivative_type = "day_ahead_swap",
                         !.strike_price = NoneU32, !.is_call = NoneBool],
      [BaseOption EXCEPT !.id = 3, !.label = "C", !.strike_price = NoneU32],
      [BaseOption EXCEPT !.id = 3, !.label = "C", !.is_call = NoneBool],
      [BaseOption EXCEPT !.id = 3, !.label = "C", !.derivative_type = "perpetual"],
      [BaseOption EXCEPT !.id = 3, !.label = "C", !.date_expires = BadDateStr],
      [BaseOption EXCEPT !.id = 3, !.label = "C", !.date_live = BadDateStr] }

RawTables == UNION {[1..n -> RawRecords] : n \in 0..MaxRecords}

(***************************************************************************)
(* Specifications                                                          *)
(***************************************************************************)
WsInit ==
    /\ wire = <<>>
    /\ rcvd = 0
    /\ outbound = <<>>
    /\ calls = <<>>
    /\ crashed = FALSE
    /\ self = Connect("wss://api.ledgerx.com/ws")

NoTableYet ==
    /\ heap = <<>>
    /\ table = NoTable
    /\ tpc = "raw"

\* The client connected, the server about to send
Init ==
    /\ WsInit
    /\ raw = <<>>
    /\ now \in NowValues
    /\ NoTableYet

Next ==
    \/ \E f \in Frames : ServerSend(f)
    \/ YieldMsg

Spec == Init /\ [][Next]_vars

\* The contract list fetched, the table about to be built
TableInit ==
    /\ WsInit
    /\ raw \in RawTables
    /\ now \in NowValues
    /\ NoTableYet

TableNext == BuildTable

TableSpec == TableInit /\ [][TableNext]_vars

(***************************************************************************)
(* Properties of the message client (checked under Spec)                   *)
(***************************************************************************)
Pulled(c) == c.idx # 0
PulledBefore(i) == Cardinality({j \in 1..(i - 1) : Pulled(calls[j])})
SentIn(c) == c.outAfter - c.outBefore

\* C1 as claimed: for every Ping frame with payload P that yield_msg receives,
\* the next frame the client sends is Pong P, it is sent before the call
\* returns, and the call returns Ok(Ping(P)).
C1_PingAlwaysEchoed ==
    \A i \in DOMAIN calls :
        calls[i].frame.op = "Ping" =>
            /\ calls[i].outAfter = calls[i].outBefore + 1
            /\ Len(outbound) > calls[i].outBefore
            /\ outbound[calls[i].outBefore + 1] = Pong(calls[i].frame.data)
            /\ calls[i].result = OkPing(calls[i].frame.data)

\* C1 as amended: for every Ping frame with payload P that yield_msg receives,
\* either the call sends exactly one frame, Pong P, before it returns and
\* returns Ok(Ping(P)), or (send_message failed) it sends nothing and returns
\* Err(ConnectionError) in place of the Ping event.
C1_PingEchoedUnlessSendFails ==
    \A i \in DOMAIN calls :
        calls[i].frame.op = "Ping" =>
            \/ /\ calls[i].outAfter = calls[i].outBefore + 1
               /\ outbound[calls[i].outBefore + 1] = Pong(calls[i].frame.data)
               /\ calls[i].result = OkPing(calls[i].frame.data)
            \/ /\ calls[i].outAfter = calls[i].outBefore
               /\ calls[i].result = ErrConnectionError

\* C1's case: a Ping [1,2,3] was pulled after an earlier call, and answered
C1_Witness ==
    \E i \in DOMAIN calls :
        /\ i > 1
        /\ calls[i].frame = Ping(<<1, 2, 3>>)
        /\ calls[i].result = OkPing(<<1, 2, 3>>)
        /\ outbound[calls[i].outAfter] = Pong(<<1, 2, 3>>)

\* A JSON object tagged book_top that holds the seven integer fields
HasMember(s, key, value) ==
    LET t == NoWs(s)
    IN  JsonObject(t) /\ \E j \in 1..MemberCount(t) :
                            MemberKey(t, j) = key /\ MemberValue(t, j) = value
WellFormedBookTop(s) ==
    HasMember(s, "type", Str("book_top")) /\ FromStr(RawBookTopFields, s).ok

\* C2: every text frame holding a well-formed book_top object decodes to
\* Ok(BookTop) whose bid and ask are the wire integers divided by 100 and whose
\* other fields are the wire values; the end-to-end payload gives bid 100.50
\* and ask 101.00.
C2_WellFormedBookTopDecodes ==
    \A i \in DOMAIN calls :
        LET c == calls[i]
            w == FromStr(RawBookTopFields, c.frame.text).val
        IN  (c.frame.op = "Text" /\ WellFormedBookTop(c.frame.text)) =>
              /\ c.result.kind = "Ok"
              /\ c.result.tag = "BookTop"
              /\ c.result.bt.bid.frac \in 0..99
              /\ c.result.bt.ask.frac \in 0..99
              /\ 100 * c.result.bt.bid.whole + c.result.bt.bid.frac = w.bid
              /\ 100 * c.result.bt.ask.whole + c.result.bt.ask.frac = w.ask
              /\ c.result.bt.bid_size = w.bid_size
              /\ c.result.bt.ask_size = w.ask_size
              /\ c.result.bt.contract_id = w.contract_id
              /\ c.result.bt.contract_type = w.contract_type
              /\ c.result.bt.clock = w.clock
              /\ c.frame.text = EndToEndBookTop =>
                    /\ c.result.bt.bid = [whole |-> 100, frac |-> 50]
                    /\ c.result.bt.ask = [whole |-> 101, frac |-> 0]

\* The payload holds the string literal "name" somewhere
HasWord(s, name) == \E i \in DOMAIN s : s[i] = Str(name)
TagNames == {"book_top", "heartbeat", "unauth_success", "meta"}

\* C5: a text frame whose payload holds none of the recognized type tags
\* yields Err(UnknownMsgType(payload)) with the payload unchanged; the call
\* does not panic and sends nothing, and the next call pulls the next message.
C5_UnknownTypeReturned ==
    \A i \in DOMAIN calls :
        LET c == calls[i]
        IN  (c.frame.op = "Text" /\ \A name \in TagNames : ~HasWord(c.frame.text, name)) =>
              /\ c.result = ErrUnknownMsgType(c.frame.text)
              /\ SentIn(c) = 0
              /\ i = Len(calls) => ~crashed /\ rcvd = c.idx
              /\ (i < Len(calls) /\ Pulled(calls[i + 1])) =>
                    /\ calls[i + 1].idx = c.idx + 1
                    /\ calls[i + 1].frame = wire[c.idx + 1]

\* C5's case: an untagged payload was refused and the call after it returned
\* the event of the next frame
C5_Witness ==
    \E i \in DOMAIN calls :
        /\ i < Len(calls)
        /\ calls[i].frame.op = "Text"
        /\ \A name \in TagNames : ~HasWord(calls[i].frame.text, name)
        /\ calls[i].frame.text # <<>>
        /\ calls[i].result.tag = "UnknownMsgType"
        /\ calls[i + 1].idx = calls[i].idx + 1
        /\ calls[i + 1].result.kind = "Ok"

\* The session identifier a meta payload carries
WireSessionId(s) ==
    LET t == NoWs(s)
    IN  MemberValue(t, CHOOSE j \in 1..MemberCount(t) : MemberKey(t, j) = "session_id").s
IsMetaPayload(s) ==
    /\ HasMember(s, "type", Str("meta"))
    /\ \E j \in 1..MemberCount(NoWs(s)) : MemberKey(NoWs(s), j) = "session_id"
    /\ \A name \in TagNames \ {"meta"} : ~HasWord(s, name)

\* C6: for a text frame classified as meta the parser returns SessionID with
\* the session identifier decoded from that payload, or signals that meta is
\* unsupported; it never returns a SessionID that does not come from the
\* payload.
C6_SessionIdFromPayload ==
    \A i \in DOMAIN calls :
        LET c == calls[i]
        IN  (c.frame.op = "Text" /\ IsMetaPayload(c.frame.text)) =>
              \/ c.result = OkSessionID(WireSessionId(c.frame.text))
              \/ c.result.kind # "Ok"

PongsSent == Cardinality({k \in DOMAIN outbound : outbound[k].op = "Pong"})
PingsPulled == Cardinality({i \in DOMAIN calls : calls[i].frame.op = "Ping"})

\* C7 as claimed, read for the calls whose recv_message delivers a message:
\* each such yield_msg call consumes exactly one wire message, the next in
\* order, and returns exactly one result for it, Ok or Err; a Pong is sent only
\* inside a call that received a Ping, and never more Pongs than Pings pulled.
C7_OneMessageOneResult ==
    /\ \A i \in DOMAIN calls :
          Pulled(calls[i]) =>
            /\ calls[i].idx = PulledBefore(i) + 1
            /\ calls[i].frame = wire[calls[i].idx]
            /\ calls[i].result.kind \in {"Ok", "Err"}
            /\ SentIn(calls[i]) > 0 => calls[i].frame.op = "Ping"
    /\ PongsSent <= PingsPulled

\* C7 as amended: each yield_msg call consumes at most one wire message, the
\* oldest unconsumed one, and none when recv_message fails; a call that returns
\* returns exactly one result, the parse result of the message it consumed or
\* Err(ConnectionError) when recv_message or the Pong's send_message fails; a
\* call that pulls a binary or close frame consumes it and panics without a
\* result, and no call follows it.  A Pong is sent only inside a yield_msg call
\* that received a Ping, at most one per call, so no frame is sent between
\* calls and the Pongs sent never exceed the Pings pulled.
C7_PullAtMostOneReturnAtMostOne ==
    /\ \A i \in DOMAIN calls :
          LET c == calls[i]
          IN  /\ c.idx \in {0, PulledBefore(i) + 1}
              /\ Pulled(c) => c.frame = wire[c.idx]
              /\ ~Pulled(c) => c.result = ErrConnectionError /\ SentIn(c) = 0
              /\ c.result.kind \in {"Ok", "Err", "Panic"}
              /\ c.result.kind = "Panic" <=>
                    (Pulled(c) /\ c.frame.op \notin {"Text", "Ping", "Pong"})
              /\ c.result.kind = "Panic" => i = Len(calls) /\ crashed
              /\ (Pulled(c) /\ c.result.kind # "Panic") =>
                    c.result \in {Parse(c.frame), ErrConnectionError}
              /\ SentIn(c) \in {0, 1}
              /\ SentIn(c) = 1 =>
                    c.frame.op = "Ping" /\ outbound[c.outAfter] = Pong(c.frame.data)
              /\ c.outBefore = IF i = 1 THEN 0 ELSE calls[i - 1].outAfter
    /\ Len(outbound) = IF calls = <<>> THEN 0 ELSE calls[Len(calls)].outAfter
    /\ rcvd = Cardinality({i \in DOMAIN calls : Pulled(calls[i])})
    /\ PongsSent <= PingsPulled

\* C7's case: two frames were waiting, the first call took the first and
\* returned an error, the second call took the second, a Ping, and answered
C7_Witness ==
    /\ Len(calls) >= 2
    /\ calls[1].idx = 1
    /\ calls[1].result.kind = "Err"
    /\ calls[2].idx = 2
    /\ calls[2].frame.op = "Ping"
    /\ SentIn(calls[2]) = 1
    /\ PongsSent = 1

\* The tag a payload is dispatched on: the first of the four, in priority
\* order, whose literal it holds
TagLiteral(name) == <<Str("type"), Punct(":"), Sp, Str(name)>>
TagPriority == <<"book_top", "heartbeat", "unauth_success", "meta">>
TagsFound(s) == {p \in DOMAIN TagPriority : Find(s, TagLiteral(TagPriority[p]))}
FirstTag(s) ==
    TagPriority[CHOOSE p \in TagsFound(s) : \A q \in TagsFound(s) : p <= q]

C10_UnimplementedFrameHalts ==
    \A i \in DOMAIN calls :
        LET c == calls[i]
        IN  (Pulled(c) /\ c.frame.op \in {"Binary", "Close"}) =>
              /\ c.result.kind \notin {"Ok", "Err"}
              /\ SentIn(c) = 0
              /\ Len(outbound) = c.outBefore
              /\ crashed
              /\ i = Len(calls)
              /\ rcvd = c.idx
              /\ ~ENABLED YieldMsg

\* C10's case: a binary frame was pulled while a second frame was waiting
\* and calls were still allowed
C10_Witness ==
    /\ crashed
    /\ Len(calls) = 1
    /\ calls[1].frame.op = "Binary"
    /\ rcvd < Len(wire)

(***************************************************************************)
(* Properties of the contract reference table (checked under TableSpec)    *)
(***************************************************************************)
Range(m) == {m[x] : x \in DOMAIN m}

\* C3 as claimed: after sanitize has built the table from any list of raw
\* records, for every record r of the list id_table[r.id] and
\* label_table[r.label] exist and are the same allocation, and the two indices
\* reach the same set of allocations.
C3_IndicesShareEveryRecord ==
    tpc = "built" =>
        /\ \A k \in DOMAIN raw :
              /\ raw[k].id \in DOMAIN table.id_table
              /\ raw[k].label \in DOMAIN table.label_table
              /\ table.id_table[raw[k].id] = table.label_table[raw[k].label]
        /\ Range(table.id_table) = Range(table.label_table)

\* Two records of the list share their id exactly when they share their label
KeysAgree(data) ==
    \A j, k \in DOMAIN data : (data[j].id = data[k].id) <=> (data[j].label = data[k].label)

\* C3 as amended: after sanitize has built the table from a list of raw
\* records in which two records share their id exactly when they share their
\* label, for every record r of the list id_table[r.id] and
\* label_table[r.label] exist and are the same allocation, and the two indices
\* reach the same set of allocations.
C3_IndicesShareWhenKeysAgree ==
    (tpc = "built" /\ KeysAgree(raw)) =>
        /\ \A k \in DOMAIN raw :
              /\ raw[k].id \in DOMAIN table.id_table
              /\ raw[k].label \in DOMAIN table.label_table
              /\ table.id_table[raw[k].id] = table.label_table[raw[k].label]
              /\ table.id_table[raw[k].id] \in DOMAIN heap
        /\ Range(table.id_table) = Range(table.label_table)

\* C3's case: a table built from two records with different ids and labels
C3_Witness ==
    /\ tpc = "built"
    /\ Len(raw) = 2
    /\ KeysAgree(raw)
    /\ raw[1].id # raw[2].id
    /\ table.id_table[raw[1].id] # table.id_table[raw[2].id]

IsOption(r) == r.derivative_type = "options_contract"

\* C4 as claimed: for every options_contract record with wire strike S and
\* wire minimum increment M, the normalized record's strike_price is exactly
\* S/100 and its min_increment exactly M/100, and multiplier and open interest
\* are carried over unscaled.
C4_StrikeExactHundredths ==
    tpc = "built" =>
        \A k \in DOMAIN raw :
            IsOption(raw[k]) =>
                /\ heap[k].variant = "Option"
                /\ 100 * heap[k].strike_price = raw[k].strike_price.v
                /\ heap[k].min_increment.frac \in 0..99
                /\ 100 * heap[k].min_increment.whole + heap[k].min_increment.frac
                      = raw[k].min_increment
                /\ heap[k].multiplier = [whole |-> raw[k].multiplier, frac |-> 0]
                /\ raw[k].open_interest.some =>
                      heap[k].open_interest = raw[k].open_interest.v

\* C4 as amended: for every options_contract record with wire strike S and
\* wire minimum increment M, the normalized record's strike_price is S/100
\* rounded down to a whole number (500050 gives 5000) and its min_increment is
\* exactly M/100, and multiplier and open interest are carried over unscaled
\* (open interest 0 when absent).
C4_StrikeWholeUnits ==
    tpc = "built" =>
        \A k \in DOMAIN raw :
            IsOption(raw[k]) =>
                /\ heap[k].variant = "Option"
                /\ 100 * heap[k].strike_price <= raw[k].strike_price.v
                /\ raw[k].strike_price.v < 100 * (heap[k].strike_price + 1)
                /\ raw[k].strike_price.v = 500050 => heap[k].strike_price = 5000
                /\ heap[k].min_increment.frac \in 0..99
                /\ 100 * heap[k].min_increment.whole + heap[k].min_increment.frac
                      = raw[k].min_increment
                /\ heap[k].multiplier = [whole |-> raw[k].multiplier, frac |-> 0]
                /\ heap[k].open_interest =
                      IF raw[k].open_interest.some THEN raw[k].open_interest.v ELSE 0

\* C4's case: a built table holding an option whose wire strike is 500050
\* and whose wire minimum increment is 250
C4_Witness ==
    /\ tpc = "built"
    /\ \E k \in DOMAIN raw :
          /\ IsOption(raw[k])
          /\ raw[k].strike_price = Some(500050)
          /\ heap[k].min_increment = [whole |-> 2, frac |-> 50]

KnownTypes == {"day_ahead_swap", "future_contract", "options_contract"}
Normalizable(r) ==
    /\ r.derivative_type \in KnownTypes
    /\ IsOption(r) => r.strike_price.some /\ r.is_call.some

\* C9: sanitize returns a table only if every record has one of the three
\* known tags and every options_contract record has strike_price and is_call;
\* if some record does not, the transform panics and nothing is produced, no
\* table and no allocation; a returned table holds one allocation per record;
\* and a list of swap and future records never fails, whatever their
\* strike_price and is_call.
C9_AllOrNothing ==
    /\ tpc = "built" =>
          /\ \A k \in DOMAIN raw : Normalizable(raw[k])
          /\ Len(heap) = Len(raw)
    /\ (tpc # "raw" /\ \E k \in DOMAIN raw : ~Normalizable(raw[k])) =>
          /\ tpc = "panicked"
          /\ table = NoTable
          /\ heap = <<>>
    /\ (tpc # "raw" /\ \A k \in DOMAIN raw : ~IsOption(raw[k]) /\ Normalizable(raw[k])) =>
          tpc = "built"

\* C9's case: the first record is a future without strike_price and is_call,
\* which alone would build, and the second is what halts the transform
C9_Witness ==
    /\ tpc = "panicked"
    /\ Len(raw) = 2
    /\ raw[1].derivative_type = "future_contract"
    /\ ~raw[1].strike_price.some
    /\ ~Normalizable(raw[2])

=============================================================================
